---- MODULE Spec2Model ----
(***************************************************************************)
(* Sentinel Vault (contracts-svm/programs/sentinel_vault/src/lib.rs).      *)
(*                                                                         *)
(* The program is stateless logic over accounts.  The persisted state is   *)
(* the set of Vault accounts (one per owner, at the program derived        *)
(* address of seeds ["vault", owner]) and the set of Order accounts (at    *)
(* the address of seeds ["order", vault, order_id]).  The runtime applies  *)
(* one instruction at a time and rolls the whole instruction back when it  *)
(* returns an error or panics, so each instruction is one atomic action.   *)
(* The PDA bump bytes are a pure function of the address and are left out  *)
(* of the records.                                                         *)
(***************************************************************************)
EXTENDS Integers, Sequences, FiniteSets, TLC

(* ---------------------------------------------------------------------- *)
(* Bounds                                                                  *)
(* ---------------------------------------------------------------------- *)

\* the largest value of the order counter (u64::MAX in the program, scaled
\* down so that the exhausted counter is reached)
MaxOrderCount == 2

\* the signers of instructions
Identities == {"alice", "bob"}

\* values of Clock::get()?.unix_timestamp
Times == {1}

\* trigger_price arguments of create_order
TriggerPrices == 0..1

\* amount arguments of create_order
Amounts == {5}

\* token_mint arguments of create_order
Mints == {"mintA"}

\* reference prices the price feed reports at the time of an execute_order
Prices == 0..2

(* ---------------------------------------------------------------------- *)
(* Types of the program                                                    *)
(* ---------------------------------------------------------------------- *)

OrderType == {"StopLoss", "TakeProfit", "TrailingStop"}

OrderStatus == {"Active", "Executed", "Cancelled", "Expired"}

\* Option<i64>: None is the empty set, Some(t) is {t}
None == {}

Some(t) == {t}

\* an address at which no account has been created
NoAccount == [tag |-> "None"]

\* a Vault account with its fields
Vault(owner, order_count, created_at) ==
    [tag |-> "Vault", owner |-> owner, order_count |-> order_count,
     created_at |-> created_at]

\* an Order account with its fields
Order(vault, owner, order_id, order_type, trigger_price, amount, token_mint, status, created_at, executed_at) ==
    [tag |-> "Order", vault |-> vault, owner |-> owner, order_id |-> order_id,
     order_type |-> order_type, trigger_price |-> trigger_price,
     amount |-> amount, token_mint |-> token_mint, status |-> status,
     created_at |-> created_at, executed_at |-> executed_at]

\* seeds = [b"vault", owner.key().as_ref()]
derive_vault_location(owner) == <<"vault", owner>>

\* seeds = [b"order", vault.key().as_ref(), &order_count.to_le_bytes()]
derive_order_location(vault, order_id) == <<"order", vault, order_id>>

VaultKeys == {derive_vault_location(o) : o \in Identities}

\* the vault addresses passed to create_order: orders are placed in one vault
OrderVaults == {derive_vault_location("alice")}

OrderKeys ==
    {derive_order_location(v, i) : v \in OrderVaults, i \in 0..MaxOrderCount}

\* the reference price and the swap collaborator's answer when the
\* specification does not vary them
FixedPrice == {1}

FixedSwap == {TRUE}

\* an instruction argument that is not used by the instruction
NoRef == <<>>

(* ---------------------------------------------------------------------- *)
(* State                                                                   *)
(* ---------------------------------------------------------------------- *)

VARIABLES
    vaults,     \* Vault accounts by address
    orders,     \* Order accounts by address
    last,       \* the last instruction processed: its arguments and result
    created,    \* per vault, the order_id of each order created, in order
    succeeded,  \* per order, how many execute/cancel instructions succeeded
    inits,      \* per vault address, how many initialize_vault succeeded
    observed    \* per order, the reference prices its trigger evaluations saw

vars == <<vaults, orders, last, created, succeeded, inits, observed>>

\* the record of one processed instruction
Call(op, caller, vault, order, price, swap_ok, result) ==
    [op |-> op, caller |-> caller, vault |-> vault, order |-> order,
     price |-> price, swap_ok |-> swap_ok, result |-> result]

Init ==
    /\ vaults = [k \in VaultKeys |-> NoAccount]
    /\ orders = [k \in OrderKeys |-> NoAccount]
    /\ last = Call("none", "none", NoRef, NoRef, 1, TRUE, "Ok")
    /\ created = [k \in VaultKeys |-> <<>>]
    /\ succeeded = [k \in OrderKeys |-> 0]
    /\ inits = [k \in VaultKeys |-> 0]
    /\ observed = [k \in OrderKeys |-> {}]

(* ---------------------------------------------------------------------- *)
(* initialize_vault                                                        *)
(* ---------------------------------------------------------------------- *)

\* initialize_vault as init_if_needed would validate it: an occupied vault
\* address is accepted
InitializeVaultResultIfNeeded(caller, vault_ref) ==
    IF vault_ref # derive_vault_location(caller) THEN "ConstraintSeeds"
    ELSE "Ok"

\* outcome of the InitializeVault account validation
InitializeVaultResult(caller, vault_ref) ==
    IF vault_ref # derive_vault_location(caller) THEN "ConstraintSeeds"
    ELSE IF vaults[vault_ref].tag # "None" THEN "AccountAlreadyInUse"
    ELSE "Ok"

initialize_vault(caller, vault_ref, now) ==
    LET res == InitializeVaultResult(caller, vault_ref) IN
    /\ last' = Call("initialize_vault", caller, vault_ref, NoRef, 1, TRUE, res)
    /\ IF res = "Ok"
       THEN /\ vaults' = [vaults EXCEPT ![vault_ref] = Vault(caller, 0, now)]
            /\ inits' = [inits EXCEPT ![vault_ref] = @ + 1]
       ELSE UNCHANGED <<vaults, inits>>
    /\ UNCHANGED <<orders, created, succeeded, observed>>

(* ---------------------------------------------------------------------- *)
(* create_order                                                            *)
(* ---------------------------------------------------------------------- *)

\* u64::checked_add: None when the sum does not fit the counter
checked_add(a, b) ==
    IF a + b > MaxOrderCount THEN None ELSE Some(a + b)

\* create_order without the seeds and has_one constraints on the vault
CreateOrderResultNoOwnerCheck(caller, vault_ref) ==
    IF vaults[vault_ref].tag # "Vault" THEN "AccountNotInitialized"
    ELSE IF orders[derive_order_location(vault_ref,
                       vaults[vault_ref].order_count)].tag # "None"
         THEN "AccountAlreadyInUse"
    ELSE IF checked_add(vaults[vault_ref].order_count, 1) = None THEN "Panic"
    ELSE "Ok"

\* outcome of create_order: CreateOrder account validation in field order
\* (vault loaded, order account initialised at the address derived from the
\* vault and its counter, then the vault's seeds and has_one constraints),
\* then the handler, whose unwrap() panics when checked_add returns None
CreateOrderResult(caller, vault_ref) ==
    IF vaults[vault_ref].tag # "Vault" THEN "AccountNotInitialized"
    ELSE IF orders[derive_order_location(vault_ref,
                       vaults[vault_ref].order_count)].tag # "None"
         THEN "AccountAlreadyInUse"
    ELSE IF vault_ref # derive_vault_location(caller) THEN "ConstraintSeeds"
    ELSE IF vaults[vault_ref].owner # caller THEN "ConstraintHasOne"
    ELSE IF checked_add(vaults[vault_ref].order_count, 1) = None THEN "Panic"
    ELSE "Ok"

\* the Order account when order_id is read after the counter is advanced
NewOrderIdAfterIncrement(caller, vault_ref, order_type, trigger_price, amount, token_mint, now) ==
    Order(vault_ref, caller, vaults[vault_ref].order_count + 1, order_type,
          trigger_price, amount, token_mint, "Active", now, None)

\* the Order account the handler fills in (lines 46-55)
NewOrder(caller, vault_ref, order_type, trigger_price, amount, token_mint, now) ==
    Order(vault_ref, caller, vaults[vault_ref].order_count, order_type,
          trigger_price, amount, token_mint, "Active", now, None)

\* the counter advanced by two
NextOrderCountByTwo(order_count) ==
    order_count + 2

\* the counter left as it was
NextOrderCountUnchanged(order_count) ==
    order_count

\* vault.order_count = vault.order_count.checked_add(1).unwrap()
NextOrderCount(order_count) ==
    CHOOSE n \in checked_add(order_count, 1) : TRUE

\* create_order when a panic of the handler is not rolled back: the Order
\* account written before the increment stays
create_order_no_rollback(caller, vault_ref, order_type, trigger_price, amount, token_mint, now) ==
    LET res == CreateOrderResult(caller, vault_ref)
        v == vaults[vault_ref]
        key == derive_order_location(vault_ref, v.order_count)
    IN
    /\ last' = Call("create_order", caller, vault_ref, NoRef, 1, TRUE, res)
    /\ IF res \in {"Ok", "Panic"}
       THEN orders' = [orders EXCEPT ![key] =
                    NewOrder(caller, vault_ref, order_type, trigger_price,
                             amount, token_mint, now)]
       ELSE UNCHANGED orders
    /\ IF res = "Ok"
       THEN /\ vaults' = [vaults EXCEPT ![vault_ref].order_count =
                    NextOrderCount(v.order_count)]
            /\ created' = [created EXCEPT ![vault_ref] =
                    Append(@, orders'[key].order_id)]
       ELSE UNCHANGED <<vaults, created>>
    /\ UNCHANGED <<succeeded, inits, observed>>

create_order(caller, vault_ref, order_type, trigger_price, amount, token_mint, now) ==
    LET res == CreateOrderResult(caller, vault_ref)
        v == vaults[vault_ref]
        key == derive_order_location(vault_ref, v.order_count)
    IN
    /\ last' = Call("create_order", caller, vault_ref, NoRef, 1, TRUE, res)
    /\ IF res = "Ok"
       THEN /\ orders' = [orders EXCEPT ![key] =
                    NewOrder(caller, vault_ref, order_type, trigger_price,
                             amount, token_mint, now)]
            /\ vaults' = [vaults EXCEPT ![vault_ref].order_count =
                    NextOrderCount(v.order_count)]
            /\ created' = [created EXCEPT ![vault_ref] =
                    Append(@, orders'[key].order_id)]
       ELSE UNCHANGED <<vaults, orders, created>>
    /\ UNCHANGED <<succeeded, inits, observed>>

(* ---------------------------------------------------------------------- *)
(* execute_order                                                           *)
(* ---------------------------------------------------------------------- *)

\* the seeds constraint of ExecuteOrder and CancelOrder: the account's
\* address is the one derived from its own vault and order_id fields
OrderSeedsOk(order_ref) ==
    order_ref = derive_order_location(orders[order_ref].vault,
                                      orders[order_ref].order_id)

\* execute_order when only the order's owner may execute
ExecuteOrderResultOwnerOnly(executor, order_ref) ==
    IF orders[order_ref].tag # "Order" THEN "AccountNotInitialized"
    ELSE IF ~OrderSeedsOk(order_ref) THEN "ConstraintSeeds"
    ELSE IF orders[order_ref].owner # executor THEN "ConstraintHasOne"
    ELSE IF orders[order_ref].status # "Active" THEN "OrderNotActive"
    ELSE "Ok"

\* execute_order without the require! on status
ExecuteOrderResultNoStatusCheck(executor, order_ref) ==
    IF orders[order_ref].tag # "Order" THEN "AccountNotInitialized"
    ELSE IF ~OrderSeedsOk(order_ref) THEN "ConstraintSeeds"
    ELSE "Ok"

\* outcome of execute_order: account validation, then the require! on status
ExecuteOrderResult(executor, order_ref) ==
    IF orders[order_ref].tag # "Order" THEN "AccountNotInitialized"
    ELSE IF ~OrderSeedsOk(order_ref) THEN "ConstraintSeeds"
    ELSE IF orders[order_ref].status # "Active" THEN "OrderNotActive"
    ELSE "Ok"

\* the executed order when the handler also clears the amount
ExecutedOrderClearsAmount(order, now) ==
    [order EXCEPT !.status = "Executed", !.executed_at = Some(now),
                  !.amount = 0]

\* the executed order when the handler does not record executed_at
ExecutedOrderNoTimestamp(order, now) ==
    [order EXCEPT !.status = "Executed"]

\* the order after the handler's writes (lines 79-80)
ExecutedOrder(order, now) ==
    [order EXCEPT !.status = "Executed", !.executed_at = Some(now)]

\* price is the reference price and swap_ok the swap collaborator's answer
\* at the time of the call; the instruction takes neither.  A call that
\* gets past the status check is a trigger evaluation of the order, and the
\* price it was made at is recorded in observed.
execute_order(executor, order_ref, price, swap_ok, now) ==
    LET res == ExecuteOrderResult(executor, order_ref) IN
    /\ last' = Call("execute_order", executor, NoRef, order_ref, price,
                    swap_ok, res)
    /\ IF res = "Ok"
       THEN /\ orders' = [orders EXCEPT ![order_ref] = ExecutedOrder(@, now)]
            /\ succeeded' = [succeeded EXCEPT ![order_ref] = @ + 1]
            /\ observed' = [observed EXCEPT ![order_ref] = @ \cup {price}]
       ELSE UNCHANGED <<orders, succeeded, observed>>
    /\ UNCHANGED <<vaults, created, inits>>

(* ---------------------------------------------------------------------- *)
(* cancel_order                                                            *)
(* ---------------------------------------------------------------------- *)

\* cancel_order without the require! on status
CancelOrderResultNoStatusCheck(caller, order_ref) ==
    IF orders[order_ref].tag # "Order" THEN "AccountNotInitialized"
    ELSE IF ~OrderSeedsOk(order_ref) THEN "ConstraintSeeds"
    ELSE IF orders[order_ref].owner # caller THEN "ConstraintHasOne"
    ELSE "Ok"

\* cancel_order without the has_one = owner constraint
CancelOrderResultNoOwnerCheck(caller, order_ref) ==
    IF orders[order_ref].tag # "Order" THEN "AccountNotInitialized"
    ELSE IF ~OrderSeedsOk(order_ref) THEN "ConstraintSeeds"
    ELSE IF orders[order_ref].status # "Active" THEN "OrderNotActive"
    ELSE "Ok"

\* cancel_order with the status checked before the owner
CancelOrderResultStatusFirst(caller, order_ref) ==
    IF orders[order_ref].tag # "Order" THEN "AccountNotInitialized"
    ELSE IF ~OrderSeedsOk(order_ref) THEN "ConstraintSeeds"
    ELSE IF orders[order_ref].status # "Active" THEN "OrderNotActive"
    ELSE IF orders[order_ref].owner # caller THEN "ConstraintHasOne"
    ELSE "Ok"

\* outcome of cancel_order: account validation (seeds, has_one = owner),
\* then the require! on status
CancelOrderResult(caller, order_ref) ==
    IF orders[order_ref].tag # "Order" THEN "AccountNotInitialized"
    ELSE IF ~OrderSeedsOk(order_ref) THEN "ConstraintSeeds"
    ELSE IF orders[order_ref].owner # caller THEN "ConstraintHasOne"
    ELSE IF orders[order_ref].status # "Active" THEN "OrderNotActive"
    ELSE "Ok"

\* the cancelled order when cancellation also stamps executed_at
CancelledOrderStamped(order) ==
    [order EXCEPT !.status = "Cancelled", !.executed_at = Some(order.created_at)]

\* the order after the handler's write (line 95)
CancelledOrder(order) ==
    [order EXCEPT !.status = "Cancelled"]

cancel_order(caller, order_ref) ==
    LET res == CancelOrderResult(caller, order_ref) IN
    /\ last' = Call("cancel_order", caller, NoRef, order_ref, 1, TRUE, res)
    /\ IF res = "Ok"
       THEN /\ orders' = [orders EXCEPT ![order_ref] = CancelledOrder(@)]
            /\ succeeded' = [succeeded EXCEPT ![order_ref] = @ + 1]
       ELSE UNCHANGED <<orders, succeeded>>
    /\ UNCHANGED <<vaults, created, inits, observed>>

(* ---------------------------------------------------------------------- *)
(* Specification                                                           *)
(* ---------------------------------------------------------------------- *)

\* the addresses at which an Order account exists: Account<'info, Order>
\* admits no other address
ExistingOrders == {k \in OrderKeys : orders[k].tag = "Order"}

InitializeVaultStep ==
    \E caller \in Identities, vault_ref \in VaultKeys, now \in Times :
        initialize_vault(caller, vault_ref, now)

CreateOrderStep ==
    \E caller \in Identities, vault_ref \in OrderVaults, order_type \in OrderType,
       trigger_price \in TriggerPrices, amount \in Amounts,
       token_mint \in Mints, now \in Times :
        create_order(caller, vault_ref, order_type, trigger_price, amount,
                     token_mint, now)

ExecuteOrderStep ==
    \E executor \in Identities, order_ref \in ExistingOrders,
       price \in FixedPrice, swap_ok \in FixedSwap, now \in Times :
        execute_order(executor, order_ref, price, swap_ok, now)

\* execute_order under every reference price and swap outcome
ExecuteOrderFeedStep ==
    \E executor \in Identities, order_ref \in ExistingOrders,
       price \in Prices, swap_ok \in BOOLEAN, now \in Times :
        execute_order(executor, order_ref, price, swap_ok, now)

CancelOrderStep ==
    \E caller \in Identities, order_ref \in ExistingOrders :
        cancel_order(caller, order_ref)

Next ==
    \/ InitializeVaultStep
    \/ CreateOrderStep
    \/ ExecuteOrderStep
    \/ CancelOrderStep

Spec == Init /\ [][Next]_vars

NextFeed ==
    \/ InitializeVaultStep
    \/ CreateOrderStep
    \/ ExecuteOrderFeedStep
    \/ CancelOrderStep

\* the specification in which the reference price and the swap outcome vary
SpecFeed == Init /\ [][NextFeed]_vars

(* ---------------------------------------------------------------------- *)
(* The error taxonomy of the specification                                 *)
(* ---------------------------------------------------------------------- *)

\* Unauthorized: a signer/ownership mismatch, which the program reports
\* through the seeds and has_one account constraints
IsUnauthorized(result) == result \in {"ConstraintSeeds", "ConstraintHasOne"}

\* AlreadyExists: creation at an occupied address, which the init
\* constraint reports through the system program
IsAlreadyExists(result) == result = "AccountAlreadyInUse"

\* the accounts are as they were before the instruction
AccountsUnchanged == vaults' = vaults /\ orders' = orders

\* the vault in which orders are placed
AliceVault == derive_vault_location("alice")

(* ---------------------------------------------------------------------- *)
(* C1                                                                      *)
(* ---------------------------------------------------------------------- *)

\* C1: in every vault the order_id values of the orders created under it
\* are, in creation order, 0, 1, ..., n-1 where n is the number of
\* successful create_order calls on it, and the Order accounts that refer to
\* the vault carry exactly these ids.
OrderIdsSequential ==
    \A v \in VaultKeys :
        /\ created[v] = [i \in 1..Len(created[v]) |-> i - 1]
        /\ {orders[k].order_id :
                k \in {x \in OrderKeys : /\ orders[x].tag = "Order"
                                         /\ orders[x].vault = v}}
             = 0..(Len(created[v]) - 1)

\* two orders have been created under one vault
OrderIdsSequentialWitness ==
    /\ Len(created[AliceVault]) >= 2
    /\ last.op = "create_order"
    /\ last.result = "Ok"

(* ---------------------------------------------------------------------- *)
(* C2                                                                      *)
(* ---------------------------------------------------------------------- *)

\* C2: of all the execute_order and cancel_order instructions issued against
\* one order at most one succeeds, and every execute_order or owner-issued
\* cancel_order that finds the order Executed, Cancelled or Expired fails
\* with OrderNotActive and changes nothing.
ExecuteCancelAtMostOnce ==
    [][/\ \A k \in OrderKeys : succeeded'[k] <= 1
       /\ ( /\ \/ last'.op = "execute_order"
               \/ /\ last'.op = "cancel_order"
                  /\ last'.caller = orders[last'.order].owner
            /\ orders[last'.order].status \in OrderStatus \ {"Active"} )
          => (last'.result = "OrderNotActive" /\ AccountsUnchanged)]_vars

\* an execute_order has found an order that an earlier instruction
\* completed, and failed with OrderNotActive
ExecuteCancelAtMostOnceWitness ==
    /\ last.op = "execute_order"
    /\ last.result = "OrderNotActive"
    /\ succeeded[last.order] = 1
    /\ orders[last.order].status \in {"Executed", "Cancelled"}

(* ---------------------------------------------------------------------- *)
(* C3, C4                                                                  *)
(* ---------------------------------------------------------------------- *)

\* C3: execute_order on an Active StopLoss order succeeds only when the
\* reference price is <= trigger_price; at a higher price it fails with
\* TriggerNotMet and leaves the order as it was.
StopLossExecutesOnlyAtOrBelowTrigger ==
    [][( /\ last'.op = "execute_order"
         /\ orders[last'.order].status = "Active"
         /\ orders[last'.order].order_type = "StopLoss" )
       => /\ last'.result = "Ok"
               => last'.price <= orders[last'.order].trigger_price
          /\ last'.price > orders[last'.order].trigger_price
               => /\ last'.result = "TriggerNotMet"
                  /\ orders'[last'.order] = orders[last'.order]]_vars

\* C4: execute_order on an Active TakeProfit order succeeds only when the
\* reference price is >= trigger_price; at a lower price it fails with
\* TriggerNotMet and leaves the order as it was.
TakeProfitExecutesOnlyAtOrAboveTrigger ==
    [][( /\ last'.op = "execute_order"
         /\ orders[last'.order].status = "Active"
         /\ orders[last'.order].order_type = "TakeProfit" )
       => /\ last'.result = "Ok"
               => last'.price >= orders[last'.order].trigger_price
          /\ last'.price < orders[last'.order].trigger_price
               => /\ last'.result = "TriggerNotMet"
                  /\ orders'[last'.order] = orders[last'.order]]_vars

(* ---------------------------------------------------------------------- *)
(* C5                                                                      *)
(* ---------------------------------------------------------------------- *)

\* C5: cancel_order signed by anyone but the order's owner fails as
\* Unauthorized and changes nothing, whatever the status of the order: the
\* ownership check comes before the status check.
CancelByNonOwnerUnauthorized ==
    [][( /\ last'.op = "cancel_order"
         /\ last'.caller # orders[last'.order].owner )
       => (IsUnauthorized(last'.result) /\ AccountsUnchanged)]_vars

\* a cancel_order signed by a non-owner has been refused as Unauthorized on
\* an order that was no longer Active
CancelByNonOwnerUnauthorizedWitness ==
    /\ last.op = "cancel_order"
    /\ last.caller # orders[last.order].owner
    /\ orders[last.order].status \in {"Executed", "Cancelled"}
    /\ IsUnauthorized(last.result)

(* ---------------------------------------------------------------------- *)
(* C6                                                                      *)
(* ---------------------------------------------------------------------- *)

\* C6: create_order with trigger_price = 0 fails with InvalidPrice: no Order
\* account is created and the vault's order_count is not advanced (stated
\* for the vault's owner and a counter that can still advance, where no
\* other check refuses the call).
ZeroTriggerPriceRejected ==
    [][\A caller \in Identities, vault_ref \in OrderVaults,
          order_type \in OrderType, amount \in Amounts, token_mint \in Mints,
          now \in Times :
          ( /\ vaults[vault_ref].tag = "Vault"
            /\ caller = vaults[vault_ref].owner
            /\ vaults[vault_ref].order_count < MaxOrderCount
            /\ create_order(caller, vault_ref, order_type, 0, amount,
                            token_mint, now) )
            => (last'.result = "InvalidPrice" /\ AccountsUnchanged)]_vars

(* ---------------------------------------------------------------------- *)
(* C7                                                                      *)
(* ---------------------------------------------------------------------- *)

\* the trigger evaluation of the specification for the two price-driven
\* order types
TriggerSatisfied(order, price) ==
    \/ order.order_type = "StopLoss" /\ price <= order.trigger_price
    \/ order.order_type = "TakeProfit" /\ price >= order.trigger_price

\* C7: when the swap collaborator fails during execute_order on an Active
\* order whose trigger is satisfied, the order stays Active with executed_at
\* unset; the status becomes Executed only after a successful swap.
SwapFailureKeepsOrderActive ==
    [][( /\ last'.op = "execute_order"
         /\ orders[last'.order].status = "Active"
         /\ TriggerSatisfied(orders[last'.order], last'.price)
         /\ ~last'.swap_ok )
       => /\ orders'[last'.order].status = "Active"
          /\ orders'[last'.order].executed_at = None]_vars

(* ---------------------------------------------------------------------- *)
(* C8                                                                      *)
(* ---------------------------------------------------------------------- *)

\* C8: no vault address is ever initialised twice: initialize_vault by an
\* owner whose vault exists fails as AlreadyExists and leaves the vault,
\* its order_count included, as it was.
OneVaultPerOwner ==
    [][/\ \A v \in VaultKeys : inits'[v] <= 1
       /\ ( /\ last'.op = "initialize_vault"
            /\ last'.vault = derive_vault_location(last'.caller)
            /\ vaults[last'.vault].tag = "Vault" )
          => (IsAlreadyExists(last'.result) /\ AccountsUnchanged)]_vars

\* an owner whose vault has already counted an order has called
\* initialize_vault again and has been refused
OneVaultPerOwnerWitness ==
    /\ last.op = "initialize_vault"
    /\ last.vault = derive_vault_location(last.caller)
    /\ IsAlreadyExists(last.result)
    /\ vaults[last.vault].order_count > 0

(* ---------------------------------------------------------------------- *)
(* C9                                                                      *)
(* ---------------------------------------------------------------------- *)

\* C9: create_order succeeds only for the owner of the vault it is given;
\* signed by anyone else it fails as Unauthorized, creates no Order account
\* and leaves the vault's order_count as it was.
CreateOrderOwnerOnly ==
    [][( /\ last'.op = "create_order"
         /\ vaults[last'.vault].tag = "Vault" )
       => /\ last'.result = "Ok" => last'.caller = vaults[last'.vault].owner
          /\ last'.caller # vaults[last'.vault].owner
               => (IsUnauthorized(last'.result) /\ AccountsUnchanged)]_vars

\* a create_order signed by a non-owner against an existing vault that can
\* still take orders has been refused as Unauthorized
CreateOrderOwnerOnlyWitness ==
    /\ last.op = "create_order"
    /\ vaults[last.vault].tag = "Vault"
    /\ last.caller # vaults[last.vault].owner
    /\ vaults[last.vault].order_count < MaxOrderCount
    /\ IsUnauthorized(last.result)

(* ---------------------------------------------------------------------- *)
(* C10                                                                     *)
(* ---------------------------------------------------------------------- *)

\* C10: when the vault's order_count is at the maximum of its counter,
\* create_order by the owner fails with the Overflow error: the counter
\* does not wrap, and no Order account is created.
CounterOverflowReturnsOverflow ==
    [][( /\ last'.op = "create_order"
         /\ vaults[last'.vault].tag = "Vault"
         /\ last'.caller = vaults[last'.vault].owner
         /\ vaults[last'.vault].order_count = MaxOrderCount )
       => (last'.result = "Overflow" /\ AccountsUnchanged)]_vars

(* ---------------------------------------------------------------------- *)
(* C11                                                                     *)
(* ---------------------------------------------------------------------- *)

\* C11: execute_order is permissionless: in every state and for every
\* order its outcome is the same whichever identity signs it, and a call
\* that succeeds leaves the order Executed whoever made it.
ExecutePermissionless ==
    /\ \A k \in ExistingOrders : \A e1 \in Identities, e2 \in Identities :
           ExecuteOrderResult(e1, k) = ExecuteOrderResult(e2, k)
    /\ (last.op = "execute_order" /\ last.result = "Ok")
          => /\ orders[last.order].status = "Executed"
             /\ orders[last.order].executed_at # None

\* an identity that neither owns the order nor its vault has executed it
ExecutePermissionlessWitness ==
    /\ last.op = "execute_order"
    /\ last.result = "Ok"
    /\ last.caller # orders[last.order].owner
    /\ last.caller # vaults[orders[last.order].vault].owner

(* ---------------------------------------------------------------------- *)
(* C12                                                                     *)
(* ---------------------------------------------------------------------- *)

StatusMovesForward ==
    [][\A k \in OrderKeys :
          /\ (orders[k].tag = "None" /\ orders'[k].tag = "Order")
                => orders'[k].status = "Active"
          /\ orders[k].tag = "Order"
                => /\ orders'[k].tag = "Order"
                   /\ orders'[k].status # orders[k].status
                        => /\ orders[k].status = "Active"
                           /\ orders'[k].status
                                \in {"Executed", "Cancelled", "Expired"}]_vars

\* a cancel_order by the owner has found the order Executed and has been
\* refused
StatusMovesForwardWitness ==
    /\ last.op = "cancel_order"
    /\ last.caller = orders[last.order].owner
    /\ last.result = "OrderNotActive"
    /\ orders[last.order].status = "Executed"

(* ---------------------------------------------------------------------- *)
(* C14                                                                     *)
(* ---------------------------------------------------------------------- *)

\* C14: a vault is created with order_count 0; afterwards its owner never
\* changes and its order_count changes only in a successful create_order on
\* that vault, which adds exactly 1; every other instruction, and every
\* failed one, leaves it as it was.
OrderCountChangesOnlyByCreate ==
    [][\A v \in VaultKeys :
          /\ (vaults[v].tag = "None" /\ vaults'[v].tag = "Vault")
                => vaults'[v].order_count = 0
          /\ vaults[v].tag = "Vault"
                => /\ vaults'[v].tag = "Vault"
                   /\ vaults'[v].owner = vaults[v].owner
                   /\ IF /\ last'.op = "create_order"
                         /\ last'.result = "Ok"
                         /\ last'.vault = v
                      THEN vaults'[v].order_count = vaults[v].order_count + 1
                      ELSE vaults'[v].order_count = vaults[v].order_count]_vars

\* another owner has initialised a vault while this vault had counted orders
OrderCountChangesOnlyByCreateWitness ==
    /\ last.op = "initialize_vault"
    /\ last.result = "Ok"
    /\ last.vault # AliceVault
    /\ vaults[AliceVault].tag = "Vault"
    /\ vaults[AliceVault].order_count = 2

(* ---------------------------------------------------------------------- *)
(* C15                                                                     *)
(* ---------------------------------------------------------------------- *)

\* C15: a successful cancel_order changes the status of its order from
\* Active to Cancelled and nothing else: executed_at stays unset, the other
\* orders and every vault are as they were.
CancelChangesOnlyStatus ==
    [][(last'.op = "cancel_order" /\ last'.result = "Ok")
       => /\ orders[last'.order].status = "Active"
          /\ orders' = [orders EXCEPT ![last'.order].status = "Cancelled"]
          /\ orders'[last'.order].executed_at = None
          /\ vaults' = vaults]_vars

\* an order has been cancelled while another order of the vault was Executed
CancelChangesOnlyStatusWitness ==
    /\ last.op = "cancel_order"
    /\ last.result = "Ok"
    /\ orders[last.order].status = "Cancelled"
    /\ \E k \in ExistingOrders : orders[k].status = "Executed"

(* ---------------------------------------------------------------------- *)
(* C16                                                                     *)
(* ---------------------------------------------------------------------- *)

\* the order with the two fields execution and cancellation write blanked
CreationFields(order) ==
    [order EXCEPT !.status = "Active", !.executed_at = None]

\* C16: an Order account is never removed and its vault, owner, order_id,
\* order_type, trigger_price, amount, token_mint and created_at never
\* change; a successful execute_order changes only status and executed_at
\* of its order, no other order and no vault.
OrderFieldsImmutable ==
    [][/\ \A k \in OrderKeys :
             orders[k].tag = "Order"
                => /\ orders'[k].tag = "Order"
                   /\ CreationFields(orders'[k]) = CreationFields(orders[k])
       /\ (last'.op = "execute_order" /\ last'.result = "Ok")
             => /\ \A k \in OrderKeys \ {last'.order} : orders'[k] = orders[k]
                /\ vaults' = vaults]_vars

\* an order has been executed while the vault held another order
OrderFieldsImmutableWitness ==
    /\ last.op = "execute_order"
    /\ last.result = "Ok"
    /\ orders[last.order].status = "Executed"
    /\ \E k \in ExistingOrders \ {last.order} : orders[k].status = "Active"

(* ---------------------------------------------------------------------- *)
(* C17                                                                     *)
(* ---------------------------------------------------------------------- *)

\* C17: executed_at is set exactly when the status is Executed: it is unset
\* at creation, set in the step from Active to Executed, not set by
\* cancellation, and once set it keeps its value.
ExecutedAtIffExecuted ==
    [][\A k \in OrderKeys :
          /\ orders'[k].tag = "Order"
                => (orders'[k].executed_at # None
                      <=> orders'[k].status = "Executed")
          /\ (orders[k].tag = "Order" /\ orders[k].executed_at # None)
                => orders'[k].executed_at = orders[k].executed_at]_vars

\* the vault holds an Executed order with executed_at set and a Cancelled
\* order with executed_at unset
ExecutedAtIffExecutedWitness ==
    /\ \E k \in ExistingOrders : /\ orders[k].status = "Executed"
                                 /\ orders[k].executed_at # None
    /\ \E k \in ExistingOrders : /\ orders[k].status = "Cancelled"
                                 /\ orders[k].executed_at = None

(* ---------------------------------------------------------------------- *)
(* C18                                                                     *)
(* ---------------------------------------------------------------------- *)

\* the trailing offset the specification has an order configured with
TrailingOffset == 1

\* the high-water mark of the specification: the largest of the reference
\* prices seen by the trigger evaluations of an order
HighWaterMark(prices) ==
    CHOOSE p \in prices : \A q \in prices : q <= p

\* C18: execute_order on an Active TrailingStop order succeeds only when
\* the reference price is <= high_water_mark - trailing_offset, the
\* high-water mark being the largest price its evaluations have seen, this
\* one included; otherwise it fails with TriggerNotMet and the order stays
\* as it was.
TrailingStopExecutesOnlyBelowHighWater ==
    [][( /\ last'.op = "execute_order"
         /\ orders[last'.order].status = "Active"
         /\ orders[last'.order].order_type = "TrailingStop" )
       => LET mark == HighWaterMark(observed[last'.order] \cup {last'.price})
          IN /\ last'.result = "Ok" => last'.price <= mark - TrailingOffset
             /\ last'.price > mark - TrailingOffset
                  => /\ last'.result = "TriggerNotMet"
                     /\ orders'[last'.order] = orders[last'.order]]_vars

(* ---------------------------------------------------------------------- *)
(* C19                                                                     *)
(* ---------------------------------------------------------------------- *)

\* the addresses of the Order accounts that refer to vault v
OrdersOf(v) ==
    {k \in OrderKeys : orders[k].tag = "Order" /\ orders[k].vault = v}

\* C19: a vault's order_count is the number of Order accounts that refer to
\* it, each of them has order_id < order_count, and the address derived from
\* the vault and its order_count is unoccupied, so create_order never fails
\* because the fresh order address is in use.
OrderCountMatchesOrders ==
    /\ \A v \in VaultKeys :
          vaults[v].tag = "Vault"
             => /\ vaults[v].order_count = Cardinality(OrdersOf(v))
                /\ \A k \in OrdersOf(v) :
                      orders[k].order_id < vaults[v].order_count
                /\ \A k \in OrderKeys :
                      k = derive_order_location(v, vaults[v].order_count)
                         => orders[k].tag = "None"
    /\ \A v \in OrderVaults :
          vaults[v].tag = "Vault"
             => CreateOrderResult(vaults[v].owner, v) # "AccountAlreadyInUse"
    /\ last.op = "create_order" => last.result # "AccountAlreadyInUse"

\* the vault has counted every order it can hold and the owner's next
\* create_order has found the fresh address unoccupied
OrderCountMatchesOrdersWitness ==
    /\ vaults[AliceVault].tag = "Vault"
    /\ vaults[AliceVault].order_count = MaxOrderCount
    /\ Cardinality(OrdersOf(AliceVault)) = MaxOrderCount
    /\ last.op = "create_order"
    /\ last.caller = vaults[AliceVault].owner
    /\ last.result = "Panic"

(* ---------------------------------------------------------------------- *)
(* C20                                                                     *)
(* ---------------------------------------------------------------------- *)

\* C20: the vault field of every order is the address of an existing Vault
\* account whose owner is the order's owner, and a cancel_order that
\* succeeded was signed by the owner of that vault.
OrderOwnerIsVaultOwner ==
    /\ \A k \in ExistingOrders :
          /\ orders[k].vault \in VaultKeys
          /\ vaults[orders[k].vault].tag = "Vault"
          /\ orders[k].owner = vaults[orders[k].vault].owner
    /\ (last.op = "cancel_order" /\ last.result = "Ok")
          => last.caller = vaults[orders[last.order].vault].owner

\* the owner of the vault has cancelled the second of its orders, which
\* carries the vault's address and the owner's identity
OrderOwnerIsVaultOwnerWitness ==
    /\ last.op = "cancel_order"
    /\ last.result = "Ok"
    /\ last.caller = vaults[orders[last.order].vault].owner
    /\ orders[last.order].owner = last.caller
    /\ orders[last.order].order_id = 1
    /\ orders[last.order].status = "Cancelled"

====
